---- MODULE Spec2Model ----
(***************************************************************************)
(* Stocks dashboard (streamlit_app.py): one script run per user            *)
(* interaction.  main() reads the sidebar inputs, validates the date       *)
(* range, fetches the adjusted-close series through the memoized           *)
(* get_stock_data, computes the two rolling means, keeps the last 252      *)
(* rows of each series, builds the figure and hands it to the page.        *)
(*                                                                         *)
(* A pandas Series is a record [kind, index, values]: index is the         *)
(* sequence of trading-day numbers, values the sequence of prices          *)
(* (integers, e.g. cents).  A rolling mean entry is NaN or the exact       *)
(* quotient num/den; floating-point rounding is not modelled.              *)
(***************************************************************************)
EXTENDS Integers, Sequences, FiniteSets, TLC

VARIABLES
    runs,                 \* script runs started in this session
    cache,                \* st.cache_data store of get_stock_data: key -> entry
    calls,                \* yf.download calls made so far, per argument triple
    pc,                   \* position of the current script run in main()
    stock_symbol,         \* sidebar selectbox
    start_date,           \* sidebar date_input "Start Date"
    end_date,             \* sidebar date_input "End Date"
    elements,             \* st.error / st.warning / st.text elements of this run
    upstream,             \* what yf.download did in this run ("none": not called)
    stages,               \* the calls main() made in this run, in order
    short_window,         \* calculate_sma's short_window argument
    long_window,          \* calculate_sma's long_window argument
    stock_data,
    short_sma,
    long_sma,
    stock_data_last_year,
    short_sma_last_year,
    long_sma_last_year,
    fig,
    rendered              \* the figure given to st.plotly_chart in this run

vars == <<runs, cache, calls, pc, stock_symbol, start_date, end_date, elements,
          upstream, stages, short_window, long_window, stock_data, short_sma,
          long_sma, stock_data_last_year, short_sma_last_year,
          long_sma_last_year, fig, rendered>>

sessionVars == <<runs, cache, calls>>
inputVars == <<stock_symbol, start_date, end_date>>
windowVars == <<short_window, long_window>>
smaVars == <<short_sma, long_sma>>
viewVars == <<stock_data_last_year, short_sma_last_year, long_sma_last_year>>

(***************************************************************************)
(* Bounds of the model.                                                    *)
(***************************************************************************)
MaxRuns == 3          \* script runs per session
MaxLen == 5           \* longest series drawn for a direct calculate_sma call
MaxWindow == 4        \* largest window drawn for a direct calculate_sma call
MaxPrice == 2         \* prices drawn for a direct call are 1..MaxPrice
MaxChartLen == 2      \* longest series drawn for a direct create_stock_graph call

(***************************************************************************)
(* Program constants.                                                      *)
(***************************************************************************)
SHORT_WINDOW == 20
LONG_WINDOW == 200
TAIL_ROWS == 252
FIG_HEIGHT == 600

default_symbols ==
    <<"AAPL", "GOOG", "MSFT", "AMZN", "TSLA", "NVDA", "META", "CRM", "JPM", "XOM">>

\* The selectbox offers default_symbols; the sessions explored pick among
\* the first two.
Symbols == {default_symbols[1], default_symbols[2]}

(***************************************************************************)
(* The calendar the date pickers and the market share.  Date d is the      *)
(* start of trading day Calendar[d]; the range [s, e) holds                *)
(* Calendar[e] - Calendar[s] trading days: 51, 400 and 451 here.           *)
(***************************************************************************)
Calendar == <<0, 51, 451>>
Dates == DOMAIN Calendar
DefaultStart == Dates \ {d \in Dates : \E e \in Dates : e < d}
DefaultEnd == Dates \ {d \in Dates : \E e \in Dates : e > d}

None == [kind |-> "None"]
Unset == [kind |-> "Unset"]
NaN == [def |-> FALSE]

Series(index, values) == [kind |-> "Series", index |-> index, values |-> values]
Empty(s) == Len(s.values) = 0

(***************************************************************************)
(* The market: the adjusted close of a symbol on a trading day.  AAPL      *)
(* moves, the other symbols are flat.                                      *)
(***************************************************************************)
AdjClose(symbol, day) ==
    IF symbol = default_symbols[1] THEN 150 + ((day * 7) % 13) ELSE 100

\* yf.download(symbol, start, end): the rows of the trading days in [start, end).
download(symbol, start, end) ==
    LET n == Calendar[end] - Calendar[start]
    IN  Series([i \in 1..n |-> Calendar[start] + i - 1],
               [i \in 1..n |-> AdjClose(symbol, Calendar[start] + i - 1)])

Outcomes == {"raise", "empty", "rows"}

Element(level, text, arg) == [level |-> level, text |-> text, arg |-> arg]

(***************************************************************************)
(* get_stock_data's body, run on a cache miss.  outcome is what            *)
(* yf.download does: raise, return no rows, or return rows.  The result    *)
(* is the returned value and the elements the body wrote to the page.      *)
(***************************************************************************)
\* Fault: the empty download is returned as it is, not turned into None.
get_stock_data_no_empty_check(symbol, start, end, outcome) ==
    CASE outcome = "rows" ->
            [value |-> download(symbol, start, end), elements |-> <<>>]
      [] outcome = "empty" ->
            [value |-> Series(<<>>, <<>>), elements |-> <<>>]
      [] OTHER ->
            [value |-> None,
             elements |-> <<Element("error", "Error fetching data", "exception")>>]

get_stock_data(symbol, start, end, outcome) ==
    CASE outcome = "rows" ->
            [value |-> download(symbol, start, end), elements |-> <<>>]
      [] outcome = "empty" ->
            [value |-> None,
             elements |-> <<Element("warning", "No data found for", symbol)>>]
      [] OTHER ->
            [value |-> None,
             elements |-> <<Element("error", "Error fetching data", "exception")>>]

Keys == Symbols \X Dates \X Dates

(***************************************************************************)
(* st.cache_data: an entry per argument triple, holding what the body      *)
(* returned (None included) and the elements it wrote, which a hit writes  *)
(* again.  No ttl and no max_entries: an entry stays for the session.      *)
(***************************************************************************)
CacheKey_symbol_only(symbol, start, end) == <<symbol, 0, 0>>

CacheKey(symbol, start, end) == <<symbol, start, end>>

cached_never(store, key) == FALSE

cached(store, key) == key \in DOMAIN store

memoize_values_only(store, key, r) ==
    IF r.value.kind = "None" THEN store ELSE store @@ (key :> r)

memoize(store, key, r) == store @@ (key :> r)

(***************************************************************************)
(* Series.rolling(window).mean(): a sliding sum over the values, one       *)
(* entry per row, NaN until window rows have been seen (min_periods        *)
(* defaults to the window).  The sum of the window ending at row i is the  *)
(* running sum at row i less the running sum window rows earlier, and the  *)
(* mean is that sum over the window.  The index is the input's.            *)
(***************************************************************************)
\* The running sums of rows lo..hi.
RECURSIVE cumsum(_, _, _)
cumsum(values, lo, hi) ==
    IF lo > hi THEN <<>>
    ELSE IF lo = hi THEN <<values[lo]>>
    ELSE LET mid == (lo + hi) \div 2
             left == cumsum(values, lo, mid)
             right == cumsum(values, mid + 1, hi)
             carry == left[Len(left)]
         IN  left \o [j \in 1..Len(right) |-> carry + right[j]]

\* Fault: one row too many is left undefined.
roll_entry_late(cum, window, i) ==
    IF i <= window THEN NaN
    ELSE [def |-> TRUE, num |-> cum[i] - cum[i - window], den |-> window]

\* Fault: the row leaving the window is dropped one row late.
roll_entry_wide(cum, window, i) ==
    IF i < window THEN NaN
    ELSE [def |-> TRUE,
          num |-> cum[i] - (IF i > window + 1 THEN cum[i - window - 1] ELSE 0),
          den |-> window]

\* Row i of the rolling mean, cum being the running sums of all the rows.
roll_entry(cum, window, i) ==
    IF i < window THEN NaN
    ELSE [def |-> TRUE,
          num |-> cum[i] - (IF i > window THEN cum[i - window] ELSE 0),
          den |-> window]

rolling_mean(series, window) ==
    LET n == Len(series.values)
        cum == cumsum(series.values, 1, n)
    IN  Series(series.index, [i \in 1..n |-> roll_entry(cum, window, i)])

calculate_sma(series, short, long) ==
    [short |-> rolling_mean(series, short), long |-> rolling_mean(series, long)]

\* Fault: the first n rows are kept (head for tail).
tail_head(series, n) ==
    LET len == Len(series.values)
        to == IF len > n THEN n ELSE len
    IN  Series(SubSeq(series.index, 1, to), SubSeq(series.values, 1, to))

\* Series.tail(n): the last n rows, or all of them when there are fewer.
tail(series, n) ==
    LET len == Len(series.values)
        from == IF len > n THEN len - n + 1 ELSE 1
    IN  Series(SubSeq(series.index, from, len), SubSeq(series.values, from, len))

(***************************************************************************)
(* create_stock_graph: None and an error element for a missing or empty    *)
(* series, else the figure.                                                *)
(***************************************************************************)
RangeButtons ==
    << [count |-> 1, label |-> "1m", step |-> "month", stepmode |-> "backward"],
       [count |-> 6, label |-> "6m", step |-> "month", stepmode |-> "backward"],
       [count |-> 1, label |-> "YTD", step |-> "year", stepmode |-> "todate"],
       [count |-> 1, label |-> "1y", step |-> "year", stepmode |-> "backward"],
       [step |-> "all"] >>

Scatter(series, name, color) ==
    [x |-> series.index, y |-> series.values, mode |-> "lines", name |-> name,
     color |-> color]

Figure(data, short, long, title) ==
    [kind |-> "Figure",
     subplot_titles |-> <<title>>,
     rangeselector |-> RangeButtons,
     rangeslider_visible |-> FALSE,
     xaxis_type |-> "date",
     data |-> << Scatter(data, title, "#007acc"),
                 Scatter(short, "20-day SMA", "#20fc03"),
                 Scatter(long, "200-day SMA", "#fc0303") >>,
     title_text |-> title,
     xaxis_title |-> "Date",
     yaxis_title |-> "Price",
     height |-> FIG_HEIGHT]

\* Fault: only a missing series is refused, an empty one is plotted.
create_stock_graph_none_only(data, short, long, title) ==
    IF data.kind = "None"
    THEN [fig |-> None,
          elements |-> <<Element("error", "No data available for plotting.", "")>>]
    ELSE [fig |-> Figure(data, short, long, title), elements |-> <<>>]

create_stock_graph(data, short, long, title) ==
    IF data.kind = "None" \/ Empty(data)
    THEN [fig |-> None,
          elements |-> <<Element("error", "No data available for plotting.", "")>>]
    ELSE [fig |-> Figure(data, short, long, title), elements |-> <<>>]

(***************************************************************************)
(* The script run.                                                         *)
(***************************************************************************)
ClearRun ==
    /\ elements' = <<>>
    /\ upstream' = "none"
    /\ stages' = <<>>
    /\ stock_data' = Unset
    /\ short_sma' = Unset
    /\ long_sma' = Unset
    /\ stock_data_last_year' = Unset
    /\ short_sma_last_year' = Unset
    /\ long_sma_last_year' = Unset
    /\ fig' = Unset
    /\ rendered' = None

\* A widget changes: Streamlit reruns the script with the new inputs.
Interact ==
    /\ pc = "done"
    /\ runs < MaxRuns
    /\ \E symbol \in Symbols, start \in Dates, end \in Dates :
          /\ stock_symbol' = symbol
          /\ start_date' = start
          /\ end_date' = end
    /\ runs' = runs + 1
    /\ pc' = "validate"
    /\ ClearRun
    /\ UNCHANGED <<cache, calls, windowVars>>

\* Fault: equal dates pass the range check.
Validate_strict ==
    /\ pc = "validate"
    /\ IF start_date > end_date
       THEN /\ elements' = Append(elements,
                   Element("error", "Start date must be before end date.", ""))
            /\ pc' = "done"
       ELSE /\ elements' = Append(elements, Element("text", "Last Update Date", ""))
            /\ pc' = "fetch"
    /\ UNCHANGED <<sessionVars, inputVars, upstream, stages, windowVars,
                   stock_data, smaVars, viewVars, fig, rendered>>

\* main, lines 113-119.
Validate ==
    /\ pc = "validate"
    /\ IF start_date >= end_date
       THEN /\ elements' = Append(elements,
                   Element("error", "Start date must be before end date.", ""))
            /\ pc' = "done"
       ELSE /\ elements' = Append(elements, Element("text", "Last Update Date", ""))
            /\ pc' = "fetch"
    /\ UNCHANGED <<sessionVars, inputVars, upstream, stages, windowVars,
                   stock_data, smaVars, viewVars, fig, rendered>>

\* main, lines 122-124: the memoized call and the test of its result.
Fetch ==
    /\ pc = "fetch"
    /\ LET key == CacheKey(stock_symbol, start_date, end_date)
       IN  IF cached(cache, key)
           THEN /\ stock_data' = cache[key].value
                /\ elements' = elements \o cache[key].elements
                /\ stages' = Append(stages, "get_stock_data")
                /\ UNCHANGED <<cache, calls, upstream>>
           ELSE \E outcome \in Outcomes :
                  LET r == get_stock_data(stock_symbol, start_date, end_date, outcome)
                  IN  /\ stock_data' = r.value
                      /\ elements' = elements \o r.elements
                      /\ cache' = memoize(cache, key, r)
                      /\ calls' = [calls EXCEPT
                             ![<<stock_symbol, start_date, end_date>>] = @ + 1]
                      /\ upstream' = outcome
                      /\ stages' = stages \o <<"get_stock_data", "download">>
    /\ pc' = IF stock_data'.kind = "None" THEN "done" ELSE "sma"
    /\ UNCHANGED <<runs, inputVars, windowVars, smaVars, viewVars, fig, rendered>>

\* Fault: the means are taken over the last rows only (truncation first).
CalcSMA_after_tail ==
    /\ pc = "sma"
    /\ LET r == calculate_sma(tail(stock_data, TAIL_ROWS), short_window, long_window)
       IN  /\ short_sma' = r.short
           /\ long_sma' = r.long
    /\ stages' = Append(stages, "calculate_sma")
    /\ pc' = "tail"
    /\ UNCHANGED <<sessionVars, inputVars, elements, upstream, windowVars,
                   stock_data, viewVars, fig, rendered>>

\* main, line 126.
CalcSMA ==
    /\ pc = "sma"
    /\ LET r == calculate_sma(stock_data, short_window, long_window)
       IN  /\ short_sma' = r.short
           /\ long_sma' = r.long
    /\ stages' = Append(stages, "calculate_sma")
    /\ pc' = "tail"
    /\ UNCHANGED <<sessionVars, inputVars, elements, upstream, windowVars,
                   stock_data, viewVars, fig, rendered>>

\* main, lines 129-130.
Truncate ==
    /\ pc = "tail"
    /\ stock_data_last_year' = tail(stock_data, TAIL_ROWS)
    /\ short_sma_last_year' = tail(short_sma, TAIL_ROWS)
    /\ long_sma_last_year' = tail(long_sma, TAIL_ROWS)
    /\ stages' = Append(stages, "tail")
    /\ pc' = "build"
    /\ UNCHANGED <<sessionVars, inputVars, elements, upstream, windowVars,
                   stock_data, smaVars, fig, rendered>>

\* main, line 133.
BuildChart ==
    /\ pc = "build"
    /\ LET r == create_stock_graph(stock_data_last_year, short_sma_last_year,
                                   long_sma_last_year, stock_symbol)
       IN  /\ fig' = r.fig
           /\ elements' = elements \o r.elements
    /\ stages' = Append(stages, "create_stock_graph")
    /\ pc' = "render"
    /\ UNCHANGED <<sessionVars, inputVars, upstream, windowVars, stock_data,
                   smaVars, viewVars, rendered>>

\* main, lines 134-135.
Render ==
    /\ pc = "render"
    /\ IF fig.kind = "Figure"
       THEN /\ rendered' = fig
            /\ stages' = Append(stages, "plotly_chart")
       ELSE UNCHANGED <<rendered, stages>>
    /\ pc' = "done"
    /\ UNCHANGED <<sessionVars, inputVars, elements, upstream, windowVars,
                   stock_data, smaVars, viewVars, fig>>

\* The first script run: the page opens with the widgets' defaults.
Init ==
    /\ runs = 1
    /\ cache = <<>>
    /\ calls = [k \in Keys |-> 0]
    /\ pc = "validate"
    /\ stock_symbol = default_symbols[1]
    /\ start_date \in DefaultStart
    /\ end_date \in DefaultEnd
    /\ elements = <<>>
    /\ upstream = "none"
    /\ stages = <<>>
    /\ short_window = SHORT_WINDOW
    /\ long_window = LONG_WINDOW
    /\ stock_data = Unset
    /\ short_sma = Unset
    /\ long_sma = Unset
    /\ stock_data_last_year = Unset
    /\ short_sma_last_year = Unset
    /\ long_sma_last_year = Unset
    /\ fig = Unset
    /\ rendered = None

Next ==
    \/ Interact
    \/ Validate
    \/ Fetch
    \/ CalcSMA
    \/ Truncate
    \/ BuildChart
    \/ Render

Spec == Init /\ [][Next]_vars

(***************************************************************************)
(* calculate_sma called directly.  The inputs: every series of at most     *)
(* MaxLen prices in 1..MaxPrice with every pair of windows up to           *)
(* MaxWindow, the ramp 1..30 with a short window of 5, and every series    *)
(* the market can return with the default windows.                         *)
(***************************************************************************)
Ramp == Series([i \in 1..30 |-> i], [i \in 1..30 |-> i])

SmaInputs ==
    { [series |-> Series([i \in 1..Len(v) |-> i], v), short |-> sw, long |-> lw] :
        v \in UNION {[1..n -> 1..MaxPrice] : n \in 0..MaxLen},
        sw \in 1..MaxWindow, lw \in 1..MaxWindow }
    \cup { [series |-> Ramp, short |-> 5, long |-> lw] : lw \in 1..MaxWindow }
    \cup { [series |-> download(k[1], k[2], k[3]),
            short |-> SHORT_WINDOW, long |-> LONG_WINDOW] :
          k \in {q \in Keys : q[2] < q[3]} }

IdleRun ==
    /\ runs = 1
    /\ cache = <<>>
    /\ calls = [k \in Keys |-> 0]
    /\ stock_symbol = default_symbols[1]
    /\ start_date \in DefaultStart
    /\ end_date \in DefaultEnd
    /\ elements = <<>>
    /\ upstream = "none"
    /\ stages = <<>>
    /\ fig = Unset
    /\ rendered = None

InitSMA ==
    /\ IdleRun
    /\ pc = "sma"
    /\ \E in \in SmaInputs :
          /\ stock_data = in.series
          /\ short_window = in.short
          /\ long_window = in.long
    /\ short_sma = Unset
    /\ long_sma = Unset
    /\ stock_data_last_year = Unset
    /\ short_sma_last_year = Unset
    /\ long_sma_last_year = Unset

NextSMA == CalcSMA

SpecSMA == InitSMA /\ [][NextSMA]_vars

(***************************************************************************)
(* create_stock_graph called directly.  The price series is None or any    *)
(* series of at most MaxChartLen rows; each average is any series of at    *)
(* most MaxChartLen rows, each row NaN or a value.                         *)
(***************************************************************************)
ChartSeries ==
    { Series([i \in 1..Len(v) |-> i], v) :
        v \in UNION {[1..n -> 1..MaxPrice] : n \in 0..MaxChartLen} }

ChartMeans ==
    { Series([i \in 1..Len(v) |-> i], v) :
        v \in UNION {[1..n -> {NaN, [def |-> TRUE, num |-> 1, den |-> 1]}] :
                       n \in 0..MaxChartLen} }

InitChart ==
    /\ runs = 1
    /\ cache = <<>>
    /\ calls = [k \in Keys |-> 0]
    /\ stock_symbol \in Symbols
    /\ start_date \in DefaultStart
    /\ end_date \in DefaultEnd
    /\ elements = <<>>
    /\ upstream = "none"
    /\ stages = <<>>
    /\ fig = Unset
    /\ rendered = None
    /\ pc = "build"
    /\ short_window = SHORT_WINDOW
    /\ long_window = LONG_WINDOW
    /\ stock_data = Unset
    /\ short_sma = Unset
    /\ long_sma = Unset
    /\ stock_data_last_year \in ChartSeries \cup {None}
    /\ short_sma_last_year \in ChartMeans
    /\ long_sma_last_year \in ChartMeans

NextChart == BuildChart

SpecChart == InitChart /\ [][NextChart]_vars

(***************************************************************************)
(* Properties.                                                             *)
(***************************************************************************)
InvalidDateRange == Element("error", "Start date must be before end date.", "")
NoDataFound(symbol) == Element("warning", "No data found for", symbol)
FetchFailure == Element("error", "Error fetching data", "exception")
NothingToPlot == Element("error", "No data available for plotting.", "")

Min(a, b) == IF a < b THEN a ELSE b
Wrote(e) == \E i \in DOMAIN elements : elements[i] = e
Ran(stage) == \E i \in DOMAIN stages : stages[i] = stage
RunKey == <<stock_symbol, start_date, end_date>>

\* The sum of rows lo..hi, added up directly.
RECURSIVE WindowSum(_, _, _)
WindowSum(values, lo, hi) ==
    IF lo > hi THEN 0
    ELSE IF lo = hi THEN values[lo]
    ELSE LET mid == (lo + hi) \div 2
         IN  WindowSum(values, lo, mid) + WindowSum(values, mid + 1, hi)

\* C1: a run whose start date is not before its end date writes the
\* InvalidDateRange error and nothing else, calls neither get_stock_data
\* (so no download) nor calculate_sma nor create_stock_graph, and renders
\* no chart.
C1_InvalidRangeStopsRun ==
    start_date >= end_date =>
        /\ pc \in {"validate", "done"}
        /\ stages = <<>>
        /\ upstream = "none"
        /\ stock_data = Unset
        /\ fig = Unset
        /\ rendered = None
        /\ pc = "done" => elements = <<InvalidDateRange>>

C1_Witness ==
    /\ pc = "done"
    /\ start_date = end_date
    /\ elements = <<InvalidDateRange>>
    /\ runs > 1
    /\ DOMAIN cache # {}

\* C2: a run with start < end whose download returns no rows gets None from
\* get_stock_data, writes the NoDataFound warning, never calls
\* create_stock_graph and renders no chart.
C2_EmptyDownloadNoChart ==
    upstream = "empty" =>
        /\ start_date < end_date
        /\ stock_data = None
        /\ Wrote(NoDataFound(stock_symbol))
        /\ ~Ran("calculate_sma")
        /\ ~Ran("create_stock_graph")
        /\ fig = Unset
        /\ rendered = None
        /\ pc = "done"

C2_Witness ==
    /\ upstream = "empty"
    /\ pc = "done"
    /\ Wrote(NoDataFound(stock_symbol))
    /\ runs > 1

\* C3: whatever the earlier runs cached, a run renders a chart only if its
\* own get_stock_data call returned a non-empty series, and the chart's
\* price trace is the last rows of that series, which is the series of the
\* run's own symbol and dates; a run whose download raised or was empty
\* renders nothing.
C3_ChartOnlyFromOwnSeries ==
    /\ upstream \in {"raise", "empty"} => rendered = None /\ stock_data = None
    /\ (pc = "done" /\ stock_data.kind # "Series") => rendered = None
    /\ rendered.kind = "Figure" =>
          /\ stock_data.kind = "Series"
          /\ ~Empty(stock_data)
          /\ Ran("get_stock_data")
          /\ upstream \in {"none", "rows"}
          /\ stock_data = download(stock_symbol, start_date, end_date)
          /\ rendered.title_text = stock_symbol
          /\ rendered.data[1].name = stock_symbol
          /\ rendered.data[1].x = tail(stock_data, TAIL_ROWS).index
          /\ rendered.data[1].y = tail(stock_data, TAIL_ROWS).values

C3_Witness ==
    /\ rendered.kind = "Figure"
    /\ upstream = "none"
    /\ \E k \in DOMAIN cache : cache[k].value = None /\ k[1] = stock_symbol

\* C4: a get_stock_data call whose arguments were used before in the
\* session returns the value the first call returned, without a download;
\* an entry of the memoization never changes, and the value filed under an
\* argument triple is the one computed for that very triple.
C4_MemoStep ==
    (pc = "fetch" /\ RunKey \in DOMAIN cache) =>
        /\ stock_data' = cache[RunKey].value
        /\ calls' = calls
        /\ cache' = cache
        /\ upstream' = "none"

C4_EntriesKept ==
    \A k \in DOMAIN cache : k \in DOMAIN cache' /\ cache'[k] = cache[k]

C4_OwnEntry ==
    /\ \A k \in Keys : calls[k] <= 1
    /\ \A k \in DOMAIN cache :
          /\ k \in Keys
          /\ calls[k] = 1
          /\ cache[k].value.kind = "Series" =>
                cache[k].value = download(k[1], k[2], k[3])
          /\ cache[k].value.kind # "Series" =>
                /\ cache[k].value = None
                /\ cache[k].elements \in {<<NoDataFound(k[1])>>, <<FetchFailure>>}
    /\ Ran("get_stock_data") =>
          RunKey \in DOMAIN cache /\ stock_data = cache[RunKey].value

C4_MemoizedFetch ==
    /\ []C4_OwnEntry
    /\ [][C4_MemoStep /\ C4_EntriesKept]_vars

C4_Witness ==
    /\ pc = "done"
    /\ upstream = "none"
    /\ Ran("get_stock_data")
    /\ stock_data.kind = "Series"
    /\ Cardinality(DOMAIN cache) > 1

\* C5: each series calculate_sma returns has the input's length and index,
\* its first window-1 entries are NaN and all later ones are defined; an
\* empty input gives empty outputs and an input shorter than the window an
\* all-NaN series of the input's length.
AlignedMean(mean, series, window) ==
    /\ mean.kind = "Series"
    /\ mean.index = series.index
    /\ Len(mean.values) = Len(series.values)
    /\ \A i \in 1..Len(series.values) : mean.values[i].def <=> (i - 1 >= window - 1)
    /\ Len(series.values) = 0 => mean.values = <<>>
    /\ Len(series.values) < window =>
          mean.values = [i \in 1..Len(series.values) |-> NaN]

C5_MeansAligned ==
    pc = "tail" =>
        /\ AlignedMean(short_sma, stock_data, short_window)
        /\ AlignedMean(long_sma, stock_data, long_window)

C5_Witness ==
    /\ pc = "tail"
    /\ Len(stock_data.values) > 0
    /\ Len(stock_data.values) >= short_window
    /\ Len(stock_data.values) < long_window
    /\ short_window > 1
    /\ long_sma.values = [i \in 1..Len(stock_data.values) |-> NaN]

\* C6: every defined entry i of a rolling mean is the sum of the window
\* rows ending at i over the window, for the short and for the long window;
\* on the ramp 1..30 with window 5 the last entry is 28, and on a flat
\* series every defined entry is the flat price.
ExactMean(mean, series, window) ==
    \A i \in 1..Len(series.values) :
        i >= window =>
            /\ mean.values[i].def
            /\ mean.values[i].den = window
            /\ mean.values[i].num = WindowSum(series.values, i - window + 1, i)
            /\ (\A j \in 1..Len(series.values) : series.values[j] = series.values[1])
                  => mean.values[i].num = series.values[1] * mean.values[i].den

C6_MeanOfWindow ==
    pc = "tail" =>
        /\ ExactMean(short_sma, stock_data, short_window)
        /\ ExactMean(long_sma, stock_data, long_window)
        /\ (stock_data = Ramp /\ short_window = 5) =>
              short_sma.values[30].num = 28 * short_sma.values[30].den

C6_Witness ==
    /\ pc = "tail"
    /\ stock_data = Ramp
    /\ short_window = 5
    /\ short_sma.values[30] = [def |-> TRUE, num |-> 140, den |-> 5]

\* C7: the three series given to create_stock_graph are the last
\* min(n, 252) rows of the fetched series and of its two means, in order
\* and at the same index positions; of 400 rows, rows 148..399 (counted
\* from 0) are kept.
LastRows(view, full) ==
    LET n == Len(full.values)
        m == Min(n, TAIL_ROWS)
    IN  /\ view.kind = "Series"
        /\ Len(view.values) = m
        /\ Len(view.index) = m
        /\ \A j \in 1..m :
              /\ view.values[j] = full.values[n - m + j]
              /\ view.index[j] = full.index[n - m + j]

C7_ViewIsLastRows ==
    pc \in {"build", "render"} \/ (pc = "done" /\ Ran("tail")) =>
        /\ LastRows(stock_data_last_year, stock_data)
        /\ LastRows(short_sma_last_year, short_sma)
        /\ LastRows(long_sma_last_year, long_sma)
        /\ short_sma_last_year.index = stock_data_last_year.index
        /\ long_sma_last_year.index = stock_data_last_year.index
        /\ Len(stock_data.values) = 400 =>
              /\ Len(stock_data_last_year.values) = 252
              /\ stock_data_last_year.index[1] = stock_data.index[148 + 1]
              /\ stock_data_last_year.index[252] = stock_data.index[399 + 1]
        /\ Ran("create_stock_graph") =>
              /\ fig.data[1].x = stock_data_last_year.index
              /\ fig.data[1].y = stock_data_last_year.values
              /\ fig.data[2].y = short_sma_last_year.values
              /\ fig.data[3].y = long_sma_last_year.values

C7_Witness ==
    /\ pc = "done"
    /\ rendered.kind = "Figure"
    /\ Len(stock_data.values) = 400
    /\ Len(rendered.data[1].y) = 252
    /\ rendered.data[1].x[1] = stock_data.index[149]

\* C8: create_stock_graph given None or an empty series writes the
\* nothing-to-plot error and returns no figure; given a non-empty series
\* it returns a figure of exactly three traces (price, short mean, long
\* mean, in that order) and exactly five range buttons (1 month back, 6
\* months back, year to date, 1 year back, all), however many entries of
\* the means are NaN.
C8_ChartOrError ==
    pc = "render" =>
        IF stock_data_last_year.kind = "None" \/ Len(stock_data_last_year.values) = 0
        THEN /\ fig = None
             /\ Wrote(NothingToPlot)
        ELSE /\ fig.kind = "Figure"
             /\ ~Wrote(NothingToPlot)
             /\ Len(fig.data) = 3
             /\ fig.data[1].name = stock_symbol
             /\ fig.data[1].x = stock_data_last_year.index
             /\ fig.data[1].y = stock_data_last_year.values
             /\ fig.data[2].name = "20-day SMA"
             /\ fig.data[2].x = short_sma_last_year.index
             /\ fig.data[2].y = short_sma_last_year.values
             /\ fig.data[3].name = "200-day SMA"
             /\ fig.data[3].x = long_sma_last_year.index
             /\ fig.data[3].y = long_sma_last_year.values
             /\ Len(fig.rangeselector) = 5
             /\ fig.rangeselector[1] =
                   [count |-> 1, label |-> "1m", step |-> "month", stepmode |-> "backward"]
             /\ fig.rangeselector[2] =
                   [count |-> 6, label |-> "6m", step |-> "month", stepmode |-> "backward"]
             /\ fig.rangeselector[3] =
                   [count |-> 1, label |-> "YTD", step |-> "year", stepmode |-> "todate"]
             /\ fig.rangeselector[4] =
                   [count |-> 1, label |-> "1y", step |-> "year", stepmode |-> "backward"]
             /\ fig.rangeselector[5] = [step |-> "all"]
             /\ fig.xaxis_title = "Date"
             /\ fig.yaxis_title = "Price"

C8_Witness ==
    /\ pc = "render"
    /\ fig.kind = "Figure"
    /\ Len(fig.data[1].y) > 1
    /\ \A i \in DOMAIN fig.data[2].y : ~fig.data[2].y[i].def
    /\ Len(fig.data[2].y) > 0
    /\ \E i \in DOMAIN fig.data[3].y : fig.data[3].y[i].def

\* C9: a run that renders a chart called get_stock_data, calculate_sma,
\* tail, create_stock_graph and plotly_chart once each in that order; the
\* means it renders were taken over the whole fetched series before the
\* truncation: the entry rendered for row i of the full series is the mean
\* of rows i-window+1..i of the full series, it is NaN only if
\* i < window-1 (rows counted from 0), and from 252+window-1 rows on none
\* is NaN.
RenderedMean(trace, full, window) ==
    LET n == Len(full.values)
        m == Min(n, TAIL_ROWS)
    IN  /\ Len(trace.y) = m
        /\ trace.x = SubSeq(full.index, n - m + 1, n)
        /\ \A j \in 1..m :
              LET i == n - m + j
              IN  IF i >= window
                  THEN /\ trace.y[j].def
                       /\ trace.y[j].den = window
                       /\ trace.y[j].num = WindowSum(full.values, i - window + 1, i)
                  ELSE ~trace.y[j].def
        /\ n >= TAIL_ROWS + window - 1 => \A j \in 1..m : trace.y[j].def

StagesInOrder ==
    stages \in { <<"get_stock_data", "calculate_sma", "tail",
                   "create_stock_graph", "plotly_chart">>,
                 <<"get_stock_data", "download", "calculate_sma", "tail",
                   "create_stock_graph", "plotly_chart">> }

C9_MeansBeforeTruncation ==
    rendered.kind = "Figure" =>
        /\ StagesInOrder
        /\ RenderedMean(rendered.data[2], stock_data, SHORT_WINDOW)
        /\ RenderedMean(rendered.data[3], stock_data, LONG_WINDOW)

C9_Witness ==
    /\ rendered.kind = "Figure"
    /\ Len(stock_data.values) = 400
    /\ rendered.data[2].y[1].def
    /\ ~rendered.data[3].y[1].def
    /\ rendered.data[3].y[252].def

\* C10: the memoization keeps None as it keeps a series: after a call that
\* ended in FetchFailure or NoDataFound, every later run with the same
\* arguments gets None with no download, and no argument triple is ever
\* downloaded twice in a session.
C10_NoneStep ==
    (pc = "fetch" /\ calls[RunKey] > 0) =>
        /\ RunKey \in DOMAIN cache
        /\ stock_data' = cache[RunKey].value
        /\ upstream' = "none"
        /\ calls' = calls
        /\ cache[RunKey].value = None => (stock_data' = None /\ pc' = "done")

C10_Once ==
    \A k \in Keys :
        /\ calls[k] <= 1
        /\ calls[k] = 1 <=> k \in DOMAIN cache

C10_FailedCallCached ==
    /\ []C10_Once
    /\ [][C10_NoneStep]_vars

C10_Witness ==
    /\ pc = "done"
    /\ Ran("get_stock_data")
    /\ upstream = "none"
    /\ stock_data = None
    /\ rendered = None
    /\ calls[RunKey] = 1

====
